---------------------------- MODULE Spec2Model ----------------------------
(***************************************************************************)
(* EV charging demand forecasting backend (backend/app.py, backend/utils.py) *)
(*                                                                         *)
(* Conventions of the model                                                *)
(*  - a column name is a sequence of one-character strings, so that the    *)
(*    detectors' lower() and substring tests are computed, not assumed;    *)
(*  - a cell of a raw table is a record [k, v]: k = "ts" (a parseable      *)
(*    timestamp, v = half-hours since the epoch), "num" (a number, v its   *)
(*    value),                                                              *)
(*    "milli" (a number with three decimals, v its thousandths), "str" (a  *)
(*    non-numeric, non-date string, v identifies the string) or "nan"      *)
(*    (missing);                                                           *)
(*  - a float is an integer count of 1/ONE units (fixed point);            *)
(*  - a timestamp is an integer number of half-hours since the epoch.      *)
(***************************************************************************)
EXTENDS Integers, Sequences, FiniteSets, TLC

\* the aggregators as functions of their input (SpecAgg)
VARIABLES aggPc, aggImpl, aggRaw, aggSite, aggFreq, aggOut

\* _run_model's selection of hyperparameters as a function of its input
\* (SpecSelect)
VARIABLES selPc, selIn, selOut

\* forecast's window adjustment and split as a function of the series length
\* and the request (SpecAdjust)
VARIABLES adjPc, adjIn, adjOut

\* concurrent forecast and export calls around _LAST_FORECAST_DF (SpecRace):
\*   rcHeap            the DataFrame objects, by identity (1, 2, ...)
\*   rcLog             history: per object, the forecast it was built from and
\*                     whether its call has stored it
\*   rcLastForecastDf  the global: 0 (None) or the identity of a DataFrame
\*   rcPc, rcFutOut    per forecast thread, its next statement and its local
\*                     fut_out (an identity)
\*   rcExpPc, rcResp   the export thread's next statement and its response
VARIABLES rcHeap, rcLog, rcLastForecastDf, rcPc, rcFutOut, rcExpPc, rcResp

\* the service (Spec):
\*   filledCsv       the file LATEST_FILLED_CSV, the working dataset
\*   latestCsv       the file LATEST_CSV, which get_raw previews
\*   lastForecastDf  the global _LAST_FORECAST_DF
\*   pc              where the request being served is: "idle" (none), "loaded"
\*                   (forecast has aggregated the dataset), "diag_loaded"
\*                   (diagnostics has aggregated it), "await" (forecast
\*                   blocked in future.result), "shutdown" (forecast
\*                   blocked in the executor's exit after the timeout),
\*                   "returned" (the response is with the client)
\*   req, agg, y     the request served (forecast's as adjusted, or the
\*                   parameters of diagnostics), the aggregated frame and
\*                   forecast's series
\*   worker, wres    the executor's worker ("none", "running", "finished") and
\*                   what _run_model returned or raised
\*   workDur, now    the seconds _run_model takes, and the seconds since submit
\*   resp            the response of the last operation
\*   lastOk          history: the forecast rows of the last ok:true response
VARIABLES filledCsv, latestCsv, lastForecastDf, pc, req, agg, y, worker, wres, workDur, now,
          resp, lastOk

aggVars == <<aggPc, aggImpl, aggRaw, aggSite, aggFreq, aggOut>>

selVars == <<selPc, selIn, selOut>>

adjVars == <<adjPc, adjIn, adjOut>>

raceVars == <<rcHeap, rcLog, rcLastForecastDf, rcPc, rcFutOut, rcExpPc, rcResp>>

svcVars == <<filledCsv, latestCsv, lastForecastDf, pc, req, agg, y, worker, wres, workDur,
             now, resp, lastOk>>

vars == <<aggPc, aggImpl, aggRaw, aggSite, aggFreq, aggOut, selPc, selIn, selOut,
          adjPc, adjIn, adjOut,
          rcHeap, rcLog, rcLastForecastDf, rcPc, rcFutOut, rcExpPc, rcResp,
          filledCsv, latestCsv, lastForecastDf, pc, req, agg, y, worker, wres,
          workDur, now, resp, lastOk>>

(***************************************************************************)
(* Numbers and cells                                                       *)
(***************************************************************************)
\* one unit (1.0) in fixed point: floats are counted in 1/100000, which keeps
\* exact the division by 1000.0 (Wh to kWh), the division by 5 (the trend) and
\* the factors 0.9 and 1.1 (the band) on whole-number inputs
ONE == 1000 * 100

\* an hour, counted in half-hours
HOUR == 2

\* the timestamp cell of hour h sharp, and of half past h
TsCell(h) == [k |-> "ts", v |-> h * HOUR]
TsCellHalfPast(h) == [k |-> "ts", v |-> h * HOUR + 1]
NumCell(n) == [k |-> "num", v |-> n]
StrCell(s) == [k |-> "str", v |-> s]
NanCell == [k |-> "nan", v |-> 0]

\* the request's site filter: None or a string
NoSite == [k |-> "none", v |-> 0]

\* the string "default" (utils.add_site's sentinel)
DefaultStr == StrCell(0)

(***************************************************************************)
(* Strings                                                                 *)
(***************************************************************************)
LowerChar(c) ==
  CASE c = "A" -> "a" [] c = "B" -> "b" [] c = "C" -> "c" [] c = "D" -> "d"
    [] c = "E" -> "e" [] c = "F" -> "f" [] c = "G" -> "g" [] c = "H" -> "h"
    [] c = "I" -> "i" [] c = "J" -> "j" [] c = "K" -> "k" [] c = "L" -> "l"
    [] c = "M" -> "m" [] c = "N" -> "n" [] c = "O" -> "o" [] c = "P" -> "p"
    [] c = "Q" -> "q" [] c = "R" -> "r" [] c = "S" -> "s" [] c = "T" -> "t"
    [] c = "U" -> "u" [] c = "V" -> "v" [] c = "W" -> "w" [] c = "X" -> "x"
    [] c = "Y" -> "y" [] c = "Z" -> "z" [] OTHER -> c

\* str.lower()
Lower(s) == [i \in 1..Len(s) |-> LowerChar(s[i])]

\* sub in s
Contains(s, sub) ==
  \E i \in 1..(Len(s) - Len(sub) + 1) : SubSeq(s, i, i + Len(sub) - 1) = sub

\* the column names and the hints the code looks for, as sequences of characters
Col ==
  [ connectionTime |-> <<"c","o","n","n","e","c","t","i","o","n","T","i","m","e">>,
    timestamp |-> <<"t","i","m","e","s","t","a","m","p">>,
    ts |-> <<"t","s">>,
    start |-> <<"s","t","a","r","t">>,
    date |-> <<"d","a","t","e">>,
    time |-> <<"t","i","m","e">>,
    datetime |-> <<"d","a","t","e","t","i","m","e">>,
    end |-> <<"e","n","d">>,
    connection |-> <<"c","o","n","n","e","c","t","i","o","n">>,
    connect |-> <<"c","o","n","n","e","c","t">>,
    disconnect |-> <<"d","i","s","c","o","n","n","e","c","t">>,
    disconnecttime |-> <<"d","i","s","c","o","n","n","e","c","t","t","i","m","e">>,
    sessionend |-> <<"s","e","s","s","i","o","n","e","n","d">>,
    energy_kwh |-> <<"e","n","e","r","g","y","_","k","w","h">>,
    kWhDelivered |-> <<"k","W","h","D","e","l","i","v","e","r","e","d">>,
    kwhdelivered |-> <<"k","w","h","d","e","l","i","v","e","r","e","d">>,
    kwh |-> <<"k","w","h">>,
    energy |-> <<"e","n","e","r","g","y">>,
    wh |-> <<"w","h">>,
    Wh |-> <<"W","h">>,
    site |-> <<"s","i","t","e">>,
    siteID |-> <<"s","i","t","e","I","D">>,
    siteid |-> <<"s","i","t","e","i","d">>,
    clusterID |-> <<"c","l","u","s","t","e","r","I","D">>,
    stationID |-> <<"s","t","a","t","i","o","n","I","D">>,
    stationid |-> <<"s","t","a","t","i","o","n","i","d">>,
    station |-> <<"s","t","a","t","i","o","n">>,
    site_name |-> <<"s","i","t","e","_","n","a","m","e">>,
    location |-> <<"l","o","c","a","t","i","o","n">>,
    paymentRequired |-> <<"p","a","y","m","e","n","t","R","e","q","u","i","r","e","d">>,
    userID |-> <<"u","s","e","r","I","D">>,
    WhPerMile |-> <<"W","h","P","e","r","M","i","l","e">>,
    kWhRequested |-> <<"k","W","h","R","e","q","u","e","s","t","e","d">>,
    milesRequested |-> <<"m","i","l","e","s","R","e","q","u","e","s","t","e","d">>,
    minutesAvailable |-> <<"m","i","n","u","t","e","s","A","v","a","i","l","a","b","l","e">>,
    sessions |-> <<"s","e","s","s","i","o","n","s">>,
    paid_sessions |-> <<"p","a","i","d","_","s","e","s","s","i","o","n","s">>,
    identified_users |-> <<"i","d","e","n","t","i","f","i","e","d","_","u","s","e","r","s">>,
    startedAt |-> <<"s","t","a","r","t","e","d","A","t">>,
    label |-> <<"l","a","b","e","l">>,
    disconnectTime |-> <<"d","i","s","c","o","n","n","e","c","t","T","i","m","e">>,
    sessionID |-> <<"s","e","s","s","i","o","n","I","D">>,
    spaceID |-> <<"s","p","a","c","e","I","D">>,
    timezone |-> <<"t","i","m","e","z","o","n","e">>,
    userInputs |-> <<"u","s","e","r","I","n","p","u","t","s">> ]

(***************************************************************************)
(* Raw tables (pandas DataFrame): cols is the ordered column names, rows   *)
(* the rows, each a sequence of cells aligned with cols.                   *)
(***************************************************************************)
NoTable == [cols |-> <<>>, rows |-> <<>>]

\* DataFrame.empty: some axis has length 0
IsEmptyFrame(df) == Len(df.cols) = 0 \/ Len(df.rows) = 0

\* index of column `name` in df (0 when absent)
ColIdx(df, name) ==
  IF \E i \in 1..Len(df.cols) : df.cols[i] = name
  THEN CHOOSE i \in 1..Len(df.cols) :
         df.cols[i] = name /\ \A j \in 1..(i - 1) : df.cols[j] # name
  ELSE 0

HasCol(df, name) == ColIdx(df, name) # 0

\* the first element of the candidate list that is a column of df (0: none)
FirstCand(df, cands) ==
  IF \E n \in 1..Len(cands) : HasCol(df, cands[n])
  THEN LET n == CHOOSE n \in 1..Len(cands) :
                  HasCol(df, cands[n]) /\ \A m \in 1..(n - 1) : ~HasCol(df, cands[m])
       IN ColIdx(df, cands[n])
  ELSE 0

\* the first column, in column order, whose lowercased name contains a hint
FirstColContaining(df, hints) ==
  LET hit(i) == \E n \in 1..Len(hints) : Contains(Lower(df.cols[i]), hints[n])
  IN IF \E i \in 1..Len(df.cols) : hit(i)
     THEN CHOOSE i \in 1..Len(df.cols) : hit(i) /\ \A j \in 1..(i - 1) : ~hit(j)
     ELSE 0

\* pd.to_datetime(errors="coerce") on one cell: half-hours since the epoch, or
\* NaT. A bare number is nanoseconds since the epoch: it lands in the
\* half-hour 0 (or -1).
IsNaT(c) == c.k \in {"str", "nan"}
ToDatetime(c) == IF c.k = "ts" THEN c.v ELSE IF c.v >= 0 THEN 0 ELSE -1

\* pd.to_numeric(errors="coerce") on one cell: NaN unless a number
IsNaNNumeric(c) == c.k \notin {"num", "milli"}

\* the float a numeric cell holds
CellValue(c) == IF c.k = "milli" THEN c.v * (ONE \div 1000) ELSE c.v * ONE

(***************************************************************************)
(* Grouping into time buckets: groupby(pd.Grouper(freq=freq)).agg(sum)     *)
(* A session row is [ts, energy_kwh, sessions].                            *)
(***************************************************************************)
BucketLen(freq) == IF freq = "D" THEN 24 * HOUR ELSE HOUR

\* truncation of a timestamp to its bucket's left edge
\* a grouping that keeps the first timestamp as it is
BucketOfUnaligned(h, freq) == h

BucketOf(h, freq) == (h \div BucketLen(freq)) * BucketLen(freq)

\* the sum of energy_kwh over the session rows lo..hi that fall in bucket b
\* (by halves, to keep the recursion shallow)
RECURSIVE SumEnergyIn(_, _, _, _, _)
SumEnergyIn(sess, b, freq, lo, hi) ==
  IF lo > hi THEN 0
  ELSE IF lo = hi
  THEN (IF BucketOf(sess[lo].ts, freq) = b THEN sess[lo].energy_kwh ELSE 0)
  ELSE SumEnergyIn(sess, b, freq, lo, (lo + hi) \div 2)
       + SumEnergyIn(sess, b, freq, ((lo + hi) \div 2) + 1, hi)

\* the sum of sessions over the session rows lo..hi that fall in bucket b
RECURSIVE SumSessionsIn(_, _, _, _, _)
SumSessionsIn(sess, b, freq, lo, hi) ==
  IF lo > hi THEN 0
  ELSE IF lo = hi
  THEN (IF BucketOf(sess[lo].ts, freq) = b THEN sess[lo].sessions ELSE 0)
  ELSE SumSessionsIn(sess, b, freq, lo, (lo + hi) \div 2)
       + SumSessionsIn(sess, b, freq, ((lo + hi) \div 2) + 1, hi)

\* the bins pd.Grouper(freq) makes for n >= 1 session rows: every bucket from the
\* first occupied one to the last occupied one, occupied or not; the sum over
\* an unoccupied bin is 0
GrouperBinsZeroFilled(sess, freq) ==
  LET bs == {BucketOf(sess[i].ts, freq) : i \in 1..Len(sess)}
      lo == CHOOSE b \in bs : \A c \in bs : b <= c
      hi == CHOOSE b \in bs : \A c \in bs : c <= b
      n  == ((hi - lo) \div BucketLen(freq)) + 1
  IN [i \in 1..n |->
        LET b == lo + (i - 1) * BucketLen(freq)
        IN [ts |-> b,
            energy_kwh |-> SumEnergyIn(sess, b, freq, 1, Len(sess)),
            sessions |-> SumSessionsIn(sess, b, freq, 1, Len(sess))]]

\* a grouping that keeps only the occupied buckets
GrouperBinsOccupiedOnly(sess, freq) ==
  LET occupied(r) == r.sessions > 0
  IN SelectSeq(GrouperBinsZeroFilled(sess, freq), occupied)

GrouperBins(sess, freq) == GrouperBinsZeroFilled(sess, freq)

IsSortedByTs(rows) == \A i \in 1..(Len(rows) - 1) : rows[i].ts <= rows[i + 1].ts

RECURSIVE InsertByTs(_, _)
InsertByTs(sorted, r) ==
  IF Len(sorted) = 0 THEN <<r>>
  ELSE IF sorted[Len(sorted)].ts <= r.ts THEN Append(sorted, r)
  ELSE Append(InsertByTs(SubSeq(sorted, 1, Len(sorted) - 1), r), sorted[Len(sorted)])

RECURSIVE SortPrefix(_, _)
SortPrefix(rows, i) ==
  IF i = 0 THEN <<>> ELSE InsertByTs(SortPrefix(rows, i - 1), rows[i])

\* DataFrame.sort_index() (stable, ascending)
SortIndex(rows) == IF IsSortedByTs(rows) THEN rows ELSE SortPrefix(rows, Len(rows))

\* groupby(pd.Grouper(freq=freq)).agg({...}).sort_index()
GroupAggregate(sess, freq) ==
  IF Len(sess) = 0 THEN <<>> ELSE SortIndex(GrouperBins(sess, freq))

\* results of the aggregators
Frame(columns, rows) == [kind |-> "frame", columns |-> columns, rows |-> rows]
Raised(what) == [kind |-> "raise", columns |-> <<>>, rows |-> <<>>, error |-> what]
EmptyShape == Frame(<<Col.energy_kwh, Col.sessions>>, <<>>)


(***************************************************************************)
(* app.py: the column guessers and the aggregator the endpoints call       *)
(***************************************************************************)
\* _guess_timestamp_col: index of the column (0: None)
guess_timestamp_col(df) ==
  LET c == FirstCand(df, <<Col.connectionTime, Col.timestamp, Col.ts, Col.start, Col.date>>)
  IN IF c # 0 THEN c ELSE FirstColContaining(df, <<Col.time, Col.date>>)

\* _guess_energy_col
guess_energy_col(df) ==
  FirstCand(df, <<Col.energy_kwh, Col.kWhDelivered, Col.kwh, Col.energy>>)

\* _guess_site_col
guess_site_col(df) == FirstCand(df, <<Col.site, Col.siteID, Col.clusterID, Col.stationID>>)

\* "wh" in lc and "kwh" not in lc
ImpliesWh(name) == Contains(Lower(name), Col.wh) /\ ~Contains(Lower(name), Col.kwh)

\* to_numeric(coerce), the Wh division, fillna(0.0): the energy of one cell in kWh
EnergyOfCell(c, name) ==
  IF IsNaNNumeric(c) THEN 0
  ELSE IF ImpliesWh(name) THEN CellValue(c) \div 1000 ELSE CellValue(c)

\* a dropna that keeps the rows it should drop
AppKeepNaT(rows, tsCol) == rows

\* the rows of df kept by dropna(subset=["ts"])
AppDropNaT(rows, tsCol) ==
  LET valid(r) == ~IsNaT(r[tsCol]) IN SelectSeq(rows, valid)

\* the rows kept by df[df[site_col] == site]
AppSiteFilter(rows, siteCol, site) ==
  LET atSite(r) == r[siteCol] = site IN SelectSeq(rows, atSite)

\* the extra columns of the output, in the order extra_cols is filled
AppExtraColumns(df) ==
  (IF HasCol(df, Col.WhPerMile) THEN <<Col.WhPerMile>> ELSE <<>>)
  \o (IF HasCol(df, Col.kWhRequested) THEN <<Col.kWhRequested>> ELSE <<>>)
  \o (IF HasCol(df, Col.milesRequested) THEN <<Col.milesRequested>> ELSE <<>>)
  \o (IF HasCol(df, Col.minutesAvailable) THEN <<Col.minutesAvailable>> ELSE <<>>)
  \o (IF HasCol(df, Col.paymentRequired) THEN <<Col.paid_sessions>> ELSE <<>>)
  \o (IF HasCol(df, Col.userID) THEN <<Col.identified_users>> ELSE <<>>)

\* df["paymentRequired"].astype("float") raises on a cell that is no number
PaymentCastRaises(df, rows) ==
  /\ HasCol(df, Col.paymentRequired)
  /\ \E i \in 1..Len(rows) : rows[i][ColIdx(df, Col.paymentRequired)].k \in {"str", "ts"}

\* build_hourly_daily of app.py. The output rows carry ts, energy_kwh and
\* sessions; the values of the extra columns (means and indicator sums) are not
\* carried, their names are.
build_hourly_daily(raw, site, freq) ==
  IF IsEmptyFrame(raw) THEN EmptyShape
  ELSE
  LET tsCol == guess_timestamp_col(raw) IN
  IF tsCol = 0 THEN EmptyShape
  ELSE
  LET kept == AppDropNaT(raw.rows, tsCol) IN
  IF Len(kept) = 0 THEN EmptyShape
  ELSE
  LET enCol == guess_energy_col(raw)
      siteCol == guess_site_col(raw)
      rows == IF site # NoSite /\ siteCol # 0
              THEN AppSiteFilter(kept, siteCol, site)
              ELSE kept
  IN
  IF Len(rows) = 0 THEN EmptyShape
  ELSE IF PaymentCastRaises(raw, rows) THEN Raised("ValueError")
  ELSE
  LET sess == [i \in 1..Len(rows) |->
                 [ts |-> ToDatetime(rows[i][tsCol]),
                  energy_kwh |-> IF enCol = 0 THEN 0
                                 ELSE EnergyOfCell(rows[i][enCol], raw.cols[enCol]),
                  sessions |-> 1]]
  IN Frame(<<Col.energy_kwh, Col.sessions>> \o AppExtraColumns(raw),
           GroupAggregate(sess, freq))

(***************************************************************************)
(* utils.py: the substring-hint detectors and the second aggregator        *)
(***************************************************************************)
\* the dtype of a column is object when it holds a string (read_csv leaves
\* timestamps as strings) or when the frame has no row
IsObjectColumn(df, j) ==
  Len(df.rows) = 0 \/ \E i \in 1..Len(df.rows) : df.rows[i][j].k \in {"ts", "str"}

\* detect_columns: the timestamp column
utils_timestamp_col(df) ==
  LET c == FirstColContaining(df, <<Col.timestamp, Col.datetime>>)
      fits(j) == /\ \/ Contains(Lower(df.cols[j]), Col.time)
                    \/ Contains(Lower(df.cols[j]), Col.date)
                 /\ IsObjectColumn(df, j)
  IN IF c # 0 THEN c
     ELSE IF \E j \in 1..Len(df.cols) : fits(j)
     THEN CHOOSE j \in 1..Len(df.cols) : fits(j) /\ \A m \in 1..(j - 1) : ~fits(m)
     ELSE 0

\* detect_columns: the energy column (ENERGY_HINTS)
utils_energy_col(df) ==
  FirstColContaining(df, <<Col.kwh, Col.energy, Col.kwhdelivered, Col.wh>>)

\* detect_columns: start_col and end_col (_find_col)
utils_start_col(df) == FirstColContaining(df, <<Col.start, Col.connection, Col.connect>>)
utils_end_col(df) ==
  FirstColContaining(df, <<Col.end, Col.disconnect, Col.disconnecttime, Col.sessionend>>)

\* add_site: the first hint of SITE_HINTS, in hint order, that some column contains
utils_site_col(df) ==
  LET hints == <<Col.site, Col.station, Col.site_name, Col.location, Col.siteid, Col.stationid>>
      has(n) == \E j \in 1..Len(df.cols) : Contains(Lower(df.cols[j]), hints[n])
  IN IF \E n \in 1..Len(hints) : has(n)
     THEN LET n == CHOOSE n \in 1..Len(hints) : has(n) /\ \A m \in 1..(n - 1) : ~has(m)
          IN FirstColContaining(df, <<hints[n]>>)
     ELSE 0

\* fillna("default").astype(str) on one site cell
SiteString(c) ==
  IF c.k = "nan" THEN DefaultStr
  ELSE IF c.k = "str" THEN c
  ELSE [k |-> "text-of-" \o c.k, v |-> c.v]

\* the session rows utils.build_hourly_daily groups: NaT rows dropped, then the
\* site filter
UtilsSessions(df, tsCol, enCol, siteCol, site) ==
  LET key(r) == IF siteCol = 0 THEN DefaultStr ELSE SiteString(r[siteCol])
      kept(r) == ~IsNaT(r[tsCol]) /\ (site = NoSite \/ key(r) = site)
      rows == SelectSeq(df.rows, kept)
  IN [i \in 1..Len(rows) |->
        [ts |-> ToDatetime(rows[i][tsCol]),
         energy_kwh |-> IF enCol = 0 THEN 0
                        ELSE EnergyOfCell(rows[i][enCol], df.cols[enCol]),
         sessions |-> 1]]

\* build_hourly_daily of utils.py
utils_build_hourly_daily(df, site, freq) ==
  IF freq \notin {"H", "D"} THEN Raised("AssertionError")
  ELSE
  LET t == utils_timestamp_col(df)
      tsCol == IF t # 0 THEN t
               ELSE IF utils_end_col(df) # 0 THEN utils_end_col(df)
               ELSE utils_start_col(df)
  IN IF tsCol = 0 THEN Raised("ValueError")
     ELSE Frame(<<Col.energy_kwh, Col.sessions>>,
                GroupAggregate(
                  UtilsSessions(df, tsCol, utils_energy_col(df), utils_site_col(df),
                                site),
                  freq))

(***************************************************************************)
(* The aggregators as pure functions: inputs drawn from bounded sets       *)
(***************************************************************************)
\* the largest number of rows of an input table
MaxRows == 2

TsDom == {TsCellHalfPast(23), TsCell(48), StrCell(9)}
EnergyDom == {NumCell(1000), NumCell(3), StrCell(9)}
SiteDom == {StrCell(1), StrCell(2)}
PaymentDom == {NanCell, StrCell(9)}
LabelDom == {StrCell(1), TsCell(1)}

\* the schemas of the input tables: the column names and, per column, the
\* cells a row may hold there
Schemas ==
  { [cols |-> <<Col.connectionTime, Col.kWhDelivered, Col.siteID>>,
     doms |-> <<TsDom, EnergyDom, SiteDom>>],
    [cols |-> <<Col.connectionTime, Col.Wh>>, doms |-> <<TsDom, EnergyDom>>],
    [cols |-> <<Col.label, Col.kWhDelivered>>, doms |-> <<LabelDom, EnergyDom>>],
    [cols |-> <<Col.startedAt, Col.energy>>, doms |-> <<TsDom, EnergyDom>>],
    [cols |-> <<Col.datetime, Col.kwh>>, doms |-> <<TsDom, EnergyDom>>],
    [cols |-> <<Col.timestamp, Col.energy_kwh, Col.paymentRequired>>,
     doms |-> <<TsDom, {NumCell(3)}, PaymentDom>>],
    [cols |-> <<>>, doms |-> <<>>] }

AllCells == TsDom \cup EnergyDom \cup SiteDom \cup PaymentDom \cup LabelDom

RowSet(doms) ==
  {r \in [1..Len(doms) -> AllCells] : \A j \in 1..Len(doms) : r[j] \in doms[j]}

\* a frame without columns has no cells, hence no rows to tell apart
TablesOf(sc) ==
  {[cols |-> sc.cols, rows |-> rs] :
     rs \in UNION {[1..n -> RowSet(sc.doms)] :
                     n \in 0..(IF Len(sc.cols) = 0 THEN 0 ELSE MaxRows)}}

AggSites == {NoSite, StrCell(1)}
AggFreqs == {"H", "D"}

AggIdle ==
  /\ aggPc = "idle"
  /\ aggImpl = "none"
  /\ aggRaw = NoTable
  /\ aggSite = NoSite
  /\ aggFreq = "H"
  /\ aggOut = EmptyShape

\* a call of app.build_hourly_daily
AppAggregate ==
  /\ aggPc = "idle"
  /\ \E sc \in Schemas : \E raw \in TablesOf(sc) : \E site \in AggSites :
     \E freq \in AggFreqs :
       /\ aggRaw' = raw
       /\ aggSite' = site
       /\ aggFreq' = freq
       /\ aggOut' = build_hourly_daily(raw, site, freq)
  /\ aggImpl' = "app"
  /\ aggPc' = "done"
  /\ UNCHANGED <<svcVars, selVars, adjVars, raceVars>>

\* a call of utils.build_hourly_daily
UtilsAggregate ==
  /\ aggPc = "idle"
  /\ \E sc \in Schemas : \E raw \in TablesOf(sc) : \E site \in AggSites :
     \E freq \in AggFreqs :
       /\ aggRaw' = raw
       /\ aggSite' = site
       /\ aggFreq' = freq
       /\ aggOut' = utils_build_hourly_daily(raw, site, freq)
  /\ aggImpl' = "utils"
  /\ aggPc' = "done"
  /\ UNCHANGED <<svcVars, selVars, adjVars, raceVars>>

AggNext == AppAggregate \/ UtilsAggregate

(***************************************************************************)
(* Claims about the aggregators (checked under SpecAgg)                    *)
(***************************************************************************)
AggDone == aggPc = "done"

\* a timestamp-like column name: a canonical name, or one containing "time" or
\* "date" (case-insensitive)
TimestampLike(name) ==
  \/ name \in {Col.connectionTime, Col.timestamp, Col.ts, Col.start, Col.date}
  \/ Contains(Lower(name), Col.time)
  \/ Contains(Lower(name), Col.date)

C6_Unusable(raw) ==
  \/ IsEmptyFrame(raw)
  \/ \A j \in 1..Len(raw.cols) : ~TimestampLike(raw.cols[j])
  \/ \A j \in 1..Len(raw.cols) :
       TimestampLike(raw.cols[j]) => \A i \in 1..Len(raw.rows) : IsNaT(raw.rows[i][j])

\* C6: for every input table that is empty, that lacks any timestamp-like
\* column, or in which no row survives timestamp coercion, build_hourly_daily
\* returns the empty-shape series (columns energy_kwh and sessions, zero rows)
\* and raises no error.
C6_EmptyShapeOnUnusableInput ==
  (AggDone /\ C6_Unusable(aggRaw)) => aggOut = EmptyShape

\* C7 as claimed: the output holds a bucket only if a surviving source row falls
\* in it, so every output bucket has sessions >= 1.
C7_NoZeroFilledBuckets ==
  (AggDone /\ aggOut.kind = "frame") =>
    \A i \in 1..Len(aggOut.rows) : aggOut.rows[i].sessions >= 1

\* C7 as amended: the output holds every bucket from the first occupied one to
\* the last occupied one, one bucket length apart; the first and the last have
\* sessions >= 1, and a bucket in between with no source row is present with
\* sessions = 0 and energy_kwh = 0.
C7_GapsAreZeroFilled ==
  (AggDone /\ aggOut.kind = "frame") =>
    LET out == aggOut.rows IN
    /\ \A i \in 1..(Len(out) - 1) : out[i + 1].ts = out[i].ts + BucketLen(aggFreq)
    /\ Len(out) > 0 => (out[1].sessions >= 1 /\ out[Len(out)].sessions >= 1)
    /\ \A i \in 1..Len(out) :
         /\ out[i].sessions >= 0
         /\ out[i].sessions = 0 => out[i].energy_kwh = 0

\* a gap: an output bucket without source rows between two occupied ones
C7_Witness ==
  /\ AggDone
  /\ aggOut.kind = "frame"
  /\ \E i \in 1..Len(aggOut.rows) : aggOut.rows[i].sessions = 0

\* the raw rows of the app aggregator's input that survive: a parseable
\* timestamp and, when a site is asked for and a site column exists, that site
C8_Survives(i) ==
  LET tsCol == guess_timestamp_col(aggRaw)
      siteCol == guess_site_col(aggRaw)
  IN /\ ~IsNaT(aggRaw.rows[i][tsCol])
     /\ (aggSite # NoSite /\ siteCol # 0) => aggRaw.rows[i][siteCol] = aggSite

C8_Survivors == {i \in 1..Len(aggRaw.rows) : C8_Survives(i)}

\* the energy of raw row i in kWh, unparseable or missing counted as 0
C8_RowEnergy(i) ==
  LET enCol == guess_energy_col(aggRaw)
  IN IF enCol = 0 \/ aggRaw.rows[i][enCol].k # "num" THEN 0
     ELSE aggRaw.rows[i][enCol].v * ONE

RECURSIVE C8_EnergyOver(_)
C8_EnergyOver(S) ==
  IF S = {} THEN 0
  ELSE LET i == CHOOSE i \in S : TRUE IN C8_RowEnergy(i) + C8_EnergyOver(S \ {i})

RECURSIVE C8_TotalSessions(_, _, _)
C8_TotalSessions(out, lo, hi) ==
  IF lo > hi THEN 0
  ELSE IF lo = hi THEN out[lo].sessions
  ELSE C8_TotalSessions(out, lo, (lo + hi) \div 2)
       + C8_TotalSessions(out, ((lo + hi) \div 2) + 1, hi)

\* C8: each output bucket's sessions is the number of surviving raw rows that
\* fall in it, its energy_kwh the sum of their energies with unparseable or
\* missing energy counted as 0; every surviving row falls in an output bucket
\* and the sessions add up to the number of surviving rows.
C8_BucketsCountAndSum ==
  (AggDone /\ aggImpl = "app" /\ aggOut.kind = "frame" /\ ~IsEmptyFrame(aggRaw)
     /\ guess_timestamp_col(aggRaw) # 0) =>
    LET out == aggOut.rows
        tsCol == guess_timestamp_col(aggRaw)
        surv == C8_Survivors
        inBucket(b) == {i \in surv :
                          BucketOf(ToDatetime(aggRaw.rows[i][tsCol]), aggFreq) = b}
    IN /\ \A n \in 1..Len(out) :
            /\ out[n].sessions = Cardinality(inBucket(out[n].ts))
            /\ out[n].energy_kwh = C8_EnergyOver(inBucket(out[n].ts))
       /\ \A i \in surv : \E n \in 1..Len(out) :
            out[n].ts = BucketOf(ToDatetime(aggRaw.rows[i][tsCol]), aggFreq)
       /\ C8_TotalSessions(out, 1, Len(out)) = Cardinality(surv)

\* two surviving rows in one bucket, one of them with unparseable energy, and
\* a site filter in force
C8_Witness ==
  /\ AggDone
  /\ aggImpl = "app"
  /\ aggOut.kind = "frame"
  /\ aggSite # NoSite
  /\ \E n \in 1..Len(aggOut.rows) :
       aggOut.rows[n].sessions = 2 /\ aggOut.rows[n].energy_kwh = 3 * ONE
  /\ \E i \in C8_Survivors : aggRaw.rows[i][guess_energy_col(aggRaw)].k = "str"

\* an input whose rows come latest first
C13_LatestFirst ==
  /\ Len(aggRaw.rows) >= 2
  /\ aggRaw.rows[1][1].k = "ts" /\ aggRaw.rows[2][1].k = "ts"
  /\ aggRaw.rows[1][1].v > aggRaw.rows[2][1].v

\* C13: for both frequencies the output index is strictly increasing (hence
\* without duplicates) and every index value lies on a bucket boundary: the
\* full hour for H, midnight for D (timestamps count half-hours).
C13_IndexIncreasingAndAligned ==
  (AggDone /\ aggOut.kind = "frame") =>
    LET out == aggOut.rows
        step == IF aggFreq = "H" THEN 2 ELSE 48
    IN /\ \A i \in 1..Len(out) : out[i].ts % step = 0
       /\ \A i \in 1..(Len(out) - 1) : out[i].ts < out[i + 1].ts

\* rows given latest first, one at half past the hour, aggregated by the hour
\* into more than one bucket
C13_Witness ==
  /\ AggDone
  /\ aggOut.kind = "frame"
  /\ aggFreq = "H"
  /\ C13_LatestFirst
  /\ aggRaw.rows[2][1].v % 2 = 1
  /\ Len(aggOut.rows) >= 2

\* C9: when the table's energy column has a name containing "wh" but not
\* "kwh" (a column named "Wh"), its values are divided by 1000: a single
\* session with value 1000 in such a column yields energy_kwh = 1.0 in its bucket.
C9_WhColumnIsNormalised ==
  (/\ AggDone
   /\ aggOut.kind = "frame"
   /\ aggRaw.cols = <<Col.connectionTime, Col.Wh>>
   /\ Len(aggRaw.rows) = 1
   /\ aggRaw.rows[1][1].k = "ts"
   /\ aggRaw.rows[1][2] = NumCell(1000)) =>
    /\ Len(aggOut.rows) = 1
    /\ aggOut.rows[1].energy_kwh = ONE

(***************************************************************************)
(* app.py: the working dataset                                             *)
(***************************************************************************)
\* LATEST_FILLED_CSV does not exist
NoFile == [cols |-> <<>>, rows |-> <<>>, exists |-> FALSE]

\* a table as written by df.to_csv(LATEST_FILLED_CSV) and read back by read_csv
StoredFile(df) == [cols |-> df.cols, rows |-> df.rows, exists |-> TRUE]

\* the hour of 2020-01-01 00:00 since the epoch (18262 days)
SyntheticStart == 18262 * 24

\* make_synthetic(n_rows): hourly sessions of two hours with random energies
\* (lognormal, rounded to 3 decimals); the random draw is the choice of noise,
\* which yields energies 1.0, 1.25, ..., 2.0 kWh
make_synthetic(n_rows, noise) ==
  [cols |-> <<Col.connectionTime, Col.disconnectTime, Col.kWhDelivered, Col.clusterID,
              Col.siteID, Col.sessionID, Col.spaceID, Col.stationID, Col.timezone, Col.userID,
              Col.userInputs, Col.WhPerMile, Col.kWhRequested, Col.milesRequested,
              Col.minutesAvailable, Col.paymentRequired>>,
   rows |-> [i \in 1..n_rows |->
              <<TsCell(SyntheticStart + i - 1), TsCell(SyntheticStart + i + 1),
                [k |-> "milli", v |-> 1000 + 250 * ((i * noise) % 5)],
                StrCell(11), StrCell(12), StrCell(100 + i), StrCell(13), StrCell(14),
                StrCell(15), NanCell, NanCell, NanCell, NanCell, NanCell, NanCell,
                NanCell>>]]

\* load_raw_dataframe: the stored file, else an empty frame
load_raw_dataframe(file) ==
  IF file.exists THEN [cols |-> file.cols, rows |-> file.rows] ELSE NoTable

\* load_current_dataframe: the stored file, else synthetic data
load_current_dataframe(file, noise) ==
  IF file.exists THEN [cols |-> file.cols, rows |-> file.rows]
  ELSE make_synthetic(150, noise)

(***************************************************************************)
(* app.py: forecast helpers                                                *)
(***************************************************************************)
Max(a, b) == IF a >= b THEN a ELSE b
Min(a, b) == IF a <= b THEN a ELSE b
Abs(a) == IF a >= 0 THEN a ELSE -a

\* Optional[...] = None
None == <<>>

\* _select_series: the metric's column as floats, or ValueError. A series is a
\* sequence of [ts, y]; dropna() drops nothing, the sums are never missing.
select_series(frame, metric) ==
  IF metric \notin {"energy", "sessions"} THEN [kind |-> "raise", s |-> <<>>]
  ELSE
  LET col == IF metric = "energy" THEN Col.energy_kwh ELSE Col.sessions IN
  IF \A j \in 1..Len(frame.columns) : frame.columns[j] # col
  THEN [kind |-> "raise", s |-> <<>>]
  ELSE [kind |-> "series",
        s |-> [i \in 1..Len(frame.rows) |->
                 [ts |-> frame.rows[i].ts,
                  y |-> IF metric = "energy" THEN frame.rows[i].energy_kwh
                        ELSE frame.rows[i].sessions * ONE]]]

\* fewer points than this is rejected
MinPoints == 20

\* the window adjustment of forecast(): the effective test_size and horizon
AdjustShortSeries(n, test_size, horizon) ==
  LET short == n < Max(50, horizon + test_size + 5)
      t1 == IF short THEN Min(test_size, Max(12, n \div 5)) ELSE test_size
      h1 == IF short THEN Min(horizon, Max(12, n \div 6)) ELSE horizon
      t2 == IF t1 >= n \div 2 THEN Max(12, n \div 5) ELSE t1
  IN [test_size |-> t2, horizon |-> h1]

\* len(y.iloc[:-test_size]) if test_size > 0 else len(y)
TrainLen(n, test_size) == IF test_size > 0 THEN Max(0, n - test_size) ELSE n

\* y.iloc[-test_size:] if test_size > 0 else the empty series
TestPart(ser, test_size) ==
  IF test_size > 0 THEN SubSeq(ser, Max(1, Len(ser) - test_size + 1), Len(ser)) ELSE <<>>

(***************************************************************************)
(* The window adjustment over its inputs (SpecAdjust)                      *)
(***************************************************************************)
AdjLens == (0..70) \cup {150, 601}
AdjTestSizes == {0, 5, 10, 11, 12, 24, 48}
AdjHorizons == {1, 12, 24, 48}

AdjIdle ==
  /\ adjPc = "idle"
  /\ adjIn = [n |-> 0, test_size |-> 0, horizon |-> 0]
  /\ adjOut = [rejected |-> FALSE, series_length |-> 0, test_size |-> 0,
               horizon |-> 0, train |-> 0]

\* forecast from the length check to the split, for a series of n points and
\* a request: rejected below 20 points, else the adjusted test_size and
\* horizon and the length of the training portion
AdjustWindow ==
  /\ adjPc = "idle"
  /\ \E n \in AdjLens : \E test_size \in AdjTestSizes : \E horizon \in AdjHorizons :
       LET a == AdjustShortSeries(n, test_size, horizon)
       IN /\ adjIn' = [n |-> n, test_size |-> test_size, horizon |-> horizon]
          /\ adjOut' =
               IF n < MinPoints
               THEN [rejected |-> TRUE, series_length |-> n, test_size |-> test_size,
                     horizon |-> horizon, train |-> 0]
               ELSE [rejected |-> FALSE, series_length |-> n,
                     test_size |-> a.test_size, horizon |-> a.horizon,
                     train |-> TrainLen(n, a.test_size)]
  /\ adjPc' = "done"
  /\ UNCHANGED <<aggVars, selVars, svcVars, raceVars>>

\* C15: for a series of n >= 20 points the effective test_size and horizon
\* are no larger than the requested ones, the effective test_size is at most
\* max(12, n // 5) when the series is shorter than max(50, horizon +
\* test_size + 5), and the training portion is the series minus its last
\* test_size points and is not empty; a series of fewer than 20 points is
\* rejected with its length.
C15_AdjustmentOnlyShrinks ==
  adjPc = "done" =>
    LET n == adjIn.n
        fifth == n \div 5
        floor == IF fifth > 12 THEN fifth ELSE 12
        need == adjIn.horizon + adjIn.test_size + 5
        short == n < (IF need > 50 THEN need ELSE 50)
    IN IF n < 20
       THEN adjOut.rejected /\ adjOut.series_length = n
       ELSE /\ ~adjOut.rejected
            /\ adjOut.test_size <= adjIn.test_size
            /\ adjOut.horizon <= adjIn.horizon
            /\ short => adjOut.test_size <= floor
            /\ adjOut.train = n - adjOut.test_size
            /\ adjOut.train > 0

\* C15, the parts the code keeps: everything but "test_size is no larger than
\* requested"
C15_AllButTestSizeShrinks ==
  adjPc = "done" =>
    LET n == adjIn.n
        fifth == n \div 5
        floor == IF fifth > 12 THEN fifth ELSE 12
        need == adjIn.horizon + adjIn.test_size + 5
        short == n < (IF need > 50 THEN need ELSE 50)
    IN IF n < 20
       THEN adjOut.rejected /\ adjOut.series_length = n
       ELSE /\ ~adjOut.rejected
            /\ adjOut.horizon <= adjIn.horizon
            /\ short => adjOut.test_size <= floor
            /\ adjOut.train = n - adjOut.test_size
            /\ adjOut.train > 0

\* below this training length the search is skipped
SmallTrain == 100

DefaultOrder == <<1, 1, 1>>
NoSeasonal == <<0, 0, 0, 0>>

\* the candidates of the time-boxed search, in the order they are tried
AutoCandidates == <<<<1, 1, 1>>, <<2, 1, 1>>, <<1, 0, 1>>, <<0, 1, 1>>>>

\* the search loop after the first i candidates: fits[i] is what SARIMAX(...).fit
\* did for candidate i, [ok, aic]; best_aic starts at infinity (none)
RECURSIVE SearchAfter(_, _)
SearchAfter(fits, i) ==
  IF i = 0 THEN [none |-> TRUE, aic |-> 0, order |-> None]
  ELSE LET b == SearchAfter(fits, i - 1)
       IN IF fits[i].ok /\ (b.none \/ fits[i].aic < b.aic)
          THEN [none |-> FALSE, aic |-> fits[i].aic, order |-> AutoCandidates[i]]
          ELSE b

\* a selection that looks at the auto-search toggle first
SelectOrderAutoFirst(trainLen, auto_grid, order, seasonal_order, fits) ==
  IF auto_grid
  THEN LET best == SearchAfter(fits, Len(AutoCandidates))
       IN [order |-> IF best.order # None THEN best.order ELSE DefaultOrder,
           seasonal_order |-> NoSeasonal]
  ELSE IF trainLen < SmallTrain
  THEN [order |-> DefaultOrder, seasonal_order |-> NoSeasonal]
  ELSE [order |-> IF order # None THEN order ELSE DefaultOrder,
        seasonal_order |-> IF seasonal_order # None THEN seasonal_order
                           ELSE NoSeasonal]

\* the hyperparameters _run_model selects
SelectOrder(trainLen, auto_grid, order, seasonal_order, fits) ==
  IF trainLen < SmallTrain
  THEN [order |-> DefaultOrder, seasonal_order |-> NoSeasonal]
  ELSE IF auto_grid
  THEN LET best == SearchAfter(fits, Len(AutoCandidates))
       IN [order |-> IF best.order # None THEN best.order ELSE DefaultOrder,
           seasonal_order |-> NoSeasonal]
  ELSE [order |-> IF order # None THEN order ELSE DefaultOrder,
        seasonal_order |-> IF seasonal_order # None THEN seasonal_order
                           ELSE NoSeasonal]

(***************************************************************************)
(* The selection over its inputs (SpecSelect)                              *)
(***************************************************************************)
\* what SARIMAX(...).fit does for a search candidate: it raises, or it fits
\* with an AIC
FitOutcomes == {[ok |-> FALSE, aic |-> 0], [ok |-> TRUE, aic |-> 1], [ok |-> TRUE, aic |-> 2]}
SelTrainLens == {SmallTrain - 1, SmallTrain, SmallTrain + 50}
SelOrders == {None, <<2, 0, 0>>}
SelSeasonals == {None, <<1, 0, 0, 24>>}

SelIdle ==
  /\ selPc = "idle"
  /\ selIn = [trainLen |-> 0, auto_grid |-> FALSE, order |-> None,
              seasonal_order |-> None,
              fits |-> [i \in 1..Len(AutoCandidates) |-> [ok |-> FALSE, aic |-> 0]]]
  /\ selOut = [order |-> None, seasonal_order |-> None]

\* _run_model's selection for one training length, request and fit outcomes
Select ==
  /\ selPc = "idle"
  /\ \E trainLen \in SelTrainLens : \E auto_grid \in BOOLEAN :
     \E order \in SelOrders : \E seasonal_order \in SelSeasonals :
     \E fits \in [1..Len(AutoCandidates) -> FitOutcomes] :
       /\ selIn' = [trainLen |-> trainLen, auto_grid |-> auto_grid, order |-> order,
                    seasonal_order |-> seasonal_order, fits |-> fits]
       /\ selOut' = SelectOrder(trainLen, auto_grid, order, seasonal_order, fits)
  /\ selPc' = "done"
  /\ UNCHANGED <<aggVars, adjVars, svcVars, raceVars>>

SelNext == Select

\* C5: with fewer than 100 training points the selection is (1,1,1) and
\* (0,0,0,0) whatever the toggle and the caller's order; otherwise with
\* auto-search on it is a candidate that fitted and whose AIC no fitted
\* candidate undercuts ((1,1,1) when none fitted), with no seasonal part;
\* otherwise it is the caller's order and seasonal order, (1,1,1) and
\* (0,0,0,0) standing in for an absent one.
C5_ThreeWayPriority ==
  selPc = "done" =>
    LET fitted == {j \in 1..4 : selIn.fits[j].ok}
        cands == <<<<1, 1, 1>>, <<2, 1, 1>>, <<1, 0, 1>>, <<0, 1, 1>>>>
    IN IF selIn.trainLen < 100
       THEN selOut = [order |-> <<1, 1, 1>>, seasonal_order |-> <<0, 0, 0, 0>>]
       ELSE IF selIn.auto_grid
       THEN /\ selOut.seasonal_order = <<0, 0, 0, 0>>
            /\ IF fitted = {} THEN selOut.order = <<1, 1, 1>>
               ELSE \E j \in fitted :
                      /\ selOut.order = cands[j]
                      /\ \A k \in fitted : selIn.fits[j].aic <= selIn.fits[k].aic
       ELSE /\ selOut.order = (IF selIn.order = None THEN <<1, 1, 1>> ELSE selIn.order)
            /\ selOut.seasonal_order =
                 (IF selIn.seasonal_order = None THEN <<0, 0, 0, 0>>
                  ELSE selIn.seasonal_order)

\* the search skipped a failing first candidate and took the third, whose AIC
\* is the lowest
C5_Witness ==
  /\ selPc = "done"
  /\ selIn.trainLen >= 100
  /\ selIn.auto_grid
  /\ ~selIn.fits[1].ok
  /\ selIn.fits[2].ok /\ selIn.fits[3].ok
  /\ selIn.fits[3].aic < selIn.fits[2].aic
  /\ selOut.order = <<1, 0, 1>>

\* a range that starts at the last observation itself
FutureTsFromLast(lastTs, freq, i) == lastTs + BucketLen(freq) * (i - 1)

\* pd.date_range(last + to_offset(freq), periods=horizon, freq=freq)[i]
FutureTs(lastTs, freq, i) == lastTs + BucketLen(freq) * i

\* the linear-trend fallback of _run_model (the except branch), for horizon >= 0
FallbackForecast(ser, freq, horizon) ==
  LET n == Len(ser)
      k == Min(5, n \div 2)
      last_val == ser[n].y
      back == IF k = 0 THEN ser[1].y ELSE ser[n - k + 1].y
      trend == (ser[n].y - back) \div Max(1, k)
  IN [i \in 1..horizon |->
        LET p == last_val + trend * i
        IN [ts |-> FutureTs(ser[n].ts, freq, i),
            y_pred |-> p,
            lower |-> (p * 9) \div 10,
            upper |-> (p * 11) \div 10]]

\* what a fitted model forecasts is the library's: a level and an interval
\* half-width, both chosen by the fit
ModelForecast(ser, freq, horizon, level, width) ==
  [i \in 1..horizon |->
     LET p == level + (i % 2) * (ONE \div 16)
     IN [ts |-> FutureTs(ser[Len(ser)].ts, freq, i),
         y_pred |-> p,
         lower |-> p - width * i,
         upper |-> p + width * i]]

\* val_df: the held-out points against res.get_forecast(len(y_test))
ValidationFrame(y_test, level) ==
  [j \in 1..Len(y_test) |->
     [ts |-> y_test[j].ts, y_true |-> y_test[j].y,
      y_pred |-> level + (j % 2) * (ONE \div 8)]]

\* the sum of |y_true - y_pred| over the rows lo..hi (by halves)
RECURSIVE SumAbsErr(_, _, _)
SumAbsErr(val, lo, hi) ==
  IF lo > hi THEN 0
  ELSE IF lo = hi THEN Abs(val[lo].y_true - val[lo].y_pred)
  ELSE SumAbsErr(val, lo, (lo + hi) \div 2) + SumAbsErr(val, ((lo + hi) \div 2) + 1, hi)

\* evaluate_np: the metrics as (name, value) pairs; MAE is carried, RMSE and MAPE
\* are not computed here
evaluate_np(val) ==
  <<[name |-> "MAE", value |-> SumAbsErr(val, 1, Len(val)) \div Len(val)]>>

\* _run_model from the selection on: outcome of the final fit and the result
\* dict, or the exception that leaves the worker
RunModel(ser, rq, sel, fitOk, level, width) ==
  IF ~fitOk
  THEN IF rq.horizon < 0 THEN [kind |-> "raise"]
       ELSE [kind |-> "result", fallback |-> TRUE,
             forecast_df |-> FallbackForecast(ser, rq.freq, rq.horizon),
             order |-> <<0, 0, 0>>, seasonal_order |-> NoSeasonal]
  ELSE IF rq.horizon <= 0 THEN [kind |-> "raise"]
  ELSE LET y_test == TestPart(ser, rq.test_size)
           val == ValidationFrame(y_test, level)
       IN [kind |-> "result", fallback |-> FALSE,
           forecast_df |-> ModelForecast(ser, rq.freq, rq.horizon, level, width),
           val_df |-> IF Len(y_test) > 0 THEN val ELSE None,
           metrics |-> IF Len(y_test) > 0 THEN evaluate_np(val) ELSE None,
           order |-> sel.order, seasonal_order |-> sel.seasonal_order]

(***************************************************************************)
(* app.py: diagnostics helpers                                             *)
(***************************************************************************)
\* len(s) < 10
MinDiagPoints == 10

\* nlags = min(nlags, max(5, len(s) // 3))
EffectiveLags(nlags, n) == Min(nlags, Max(5, n \div 3))

\* the array of nlags + 1 values sm_acf / sm_pacf return: an entry is a float
\* ("num"), not-a-number ("nan") or an infinity ("inf", "-inf")
sm_stat(nlags, outcome) ==
  [i \in 1..(nlags + 1) |->
     IF i = 1 \/ outcome = "finite" THEN [k |-> "num", v |-> ONE \div i]
     ELSE IF outcome = "nan" THEN [k |-> "nan", v |-> 0]
     ELSE IF i % 3 = 0 THEN [k |-> "inf", v |-> 0]
     ELSE IF i % 3 = 1 THEN [k |-> "-inf", v |-> 0]
     ELSE [k |-> "nan", v |-> 0]]

\* a cleaning that tests pd.isna only
clean_isna_only(x) == IF x.k = "nan" THEN [k |-> "null", v |-> 0] ELSE x

\* _clean, one entry: None if pd.isna(x) or np.isinf(x), else float(x)
clean(x) == IF x.k = "nan" \/ x.k \in {"inf", "-inf"} THEN [k |-> "null", v |-> 0] ELSE x

\* _clean
clean_all(arr) == [i \in 1..Len(arr) |-> clean(arr[i])]

(***************************************************************************)
(* CSV text of a float: DataFrame.to_csv writes repr(float), the shortest   *)
(* decimal that reads back as the same float; read back by ParseFloat.     *)
(***************************************************************************)
DigitChars == <<"0", "1", "2", "3", "4", "5", "6", "7", "8", "9">>
DigitChar(d) == DigitChars[d + 1]
DigitVal(c) == CHOOSE d \in 0..9 : DigitChars[d + 1] = c

RECURSIVE Digits(_)
Digits(n) == IF n < 10 THEN <<DigitChar(n)>>
             ELSE Append(Digits(n \div 10), DigitChar(n % 10))

RECURSIVE StripZeros(_)
StripZeros(ds) == IF Len(ds) > 1 /\ ds[Len(ds)] = "0"
                  THEN StripZeros(SubSeq(ds, 1, Len(ds) - 1)) ELSE ds

\* the five decimals of a fraction counted in 1/ONE, trailing zeros dropped
FracDigits(f) ==
  StripZeros(<<DigitChar(f \div 10000), DigitChar((f \div 1000) % 10),
               DigitChar((f \div 100) % 10), DigitChar((f \div 10) % 10),
               DigitChar(f % 10)>>)

\* a format that keeps three decimals (float_format="%.3f")
FormatFloatThreeDecimals(x) ==
  (IF x < 0 THEN <<"-">> ELSE <<>>)
  \o Digits(Abs(x) \div ONE) \o <<".">>
  \o <<DigitChar((Abs(x) % ONE) \div 10000), DigitChar(((Abs(x) % ONE) \div 1000) % 10),
       DigitChar(((Abs(x) % ONE) \div 100) % 10)>>

\* repr(float): below 1e-4 in magnitude the exponent form (2e-05), else the
\* positional form
FormatFloat(x) ==
  (IF x < 0 THEN <<"-">> ELSE <<>>)
  \o (IF Abs(x) > 0 /\ Abs(x) < 10
      THEN <<DigitChar(Abs(x)), "e", "-", "0", "5">>
      ELSE Digits(Abs(x) \div ONE) \o <<".">> \o FracDigits(Abs(x) % ONE))

RECURSIVE DigitsValue(_)
DigitsValue(ds) ==
  IF Len(ds) = 0 THEN 0
  ELSE DigitsValue(SubSeq(ds, 1, Len(ds) - 1)) * 10 + DigitVal(ds[Len(ds)])

RECURSIVE Pow10(_)
Pow10(n) == IF n = 0 THEN 1 ELSE 10 * Pow10(n - 1)

\* float(text) for the texts FormatFloat writes, counted in 1/ONE
ParseFloat(text) ==
  LET neg == Len(text) > 0 /\ text[1] = "-"
      body == IF neg THEN SubSeq(text, 2, Len(text)) ELSE text
      mag == IF \E i \in 1..Len(body) : body[i] = "e"
             THEN DigitVal(body[1])
             ELSE LET dot == CHOOSE i \in 1..Len(body) : body[i] = "."
                      frac == SubSeq(body, dot + 1, Len(body))
                  IN DigitsValue(SubSeq(body, 1, dot - 1)) * ONE
                     + DigitsValue(frac) * Pow10(5 - Len(frac))
  IN IF neg THEN -mag ELSE mag

\* _LAST_FORECAST_DF.to_csv(index=False): the header and one line per row
CsvHeader == <<"metric", "freq", "ts", "y_pred", "lower", "upper">>
to_csv(df) ==
  [header |-> CsvHeader,
   lines |-> [i \in 1..Len(df) |->
                [metric |-> df[i].metric, freq |-> df[i].freq, ts |-> df[i].ts,
                 y_pred |-> FormatFloat(df[i].y_pred),
                 lower |-> FormatFloat(df[i].lower),
                 upper |-> FormatFloat(df[i].upper)]]]

(***************************************************************************)
(* The service: requests, datasets and the endpoints                       *)
(***************************************************************************)
\* future.result(timeout=20)
TIMEOUT == 20

NoRequest ==
  [site |-> NoSite, metric |-> "energy", freq |-> "H", horizon |-> 0,
   test_size |-> 0, auto_grid |-> FALSE, order |-> None, seasonal_order |-> None]

NoResp == [op |-> "none", kind |-> "none"]
NoResult == [kind |-> "none"]
NoDf == [set |-> FALSE, rows |-> <<>>]
NoOk == [any |-> FALSE, metric |-> "", freq |-> "", forecast |-> <<>>]

JsonResp(op, status, body) ==
  [op |-> op, kind |-> "json", status |-> status, body |-> body]
ExceptionResp(op) == [op |-> op, kind |-> "exception"]

\* the requests the clients send
ReqSites == {NoSite}
ReqMetrics == {"energy", "sessions", "price"}
ReqFreqs == {"H", "D"}
ReqHorizons == {-1, 0, 2, 14}
ReqTestSizes == {0, 48}
ReqModes ==
  { [auto_grid |-> TRUE, order |-> None, seasonal_order |-> None],
    [auto_grid |-> FALSE, order |-> None, seasonal_order |-> None],
    [auto_grid |-> FALSE, order |-> <<2, 0, 0>>, seasonal_order |-> <<1, 0, 0, 24>>] }

\* the draws of make_synthetic's random energies
Noises == {1, 2}

\* get_raw's limit
RawLimits == {1, 100}

\* diagnostics' nlags
ReqNlags == {3, 40}

\* what sm_acf and sm_pacf return, entry by entry: all finite; not-a-number
\* after lag 0 (a constant series); or infinite and not-a-number entries mixed
StatOutcomes ==
  { [acf |-> "finite", pacf |-> "mixed"],
    [acf |-> "nan", pacf |-> "nan"],
    [acf |-> "mixed", pacf |-> "finite"] }

\* the seconds _run_model may take
Durations == {5, 25}

\* what a fitted model forecasts
Levels == {2 * ONE, -(ONE \div 4)}
Widths == {ONE \div 2}

\* the datasets the clients upload or ingest
SiteOfRow(i) == StrCell(1 + (i % 2))

\* JSON export: three sessions, 25 days apart, the last ones falling
DataJson ==
  [cols |-> <<Col.connectionTime, Col.kWhDelivered, Col.siteID>>,
   rows |-> << <<TsCell(SyntheticStart), [k |-> "milli", v |-> 1500], StrCell(1)>>,
               <<TsCell(SyntheticStart + 596), NumCell(9), StrCell(1)>>,
               <<TsCell(SyntheticStart + 600), [k |-> "milli", v |-> 250], StrCell(2)>> >>]

\* CSV: nine hourly sessions and one a day later
DataCsv ==
  [cols |-> <<Col.connectionTime, Col.kWhDelivered, Col.siteID>>,
   rows |-> [i \in 1..10 |->
              <<TsCell(SyntheticStart + (IF i = 10 THEN 30 ELSE i - 1)),
                NumCell(i), SiteOfRow(i)>>]]

\* CSV without a timestamp column
DataNoTs ==
  [cols |-> <<Col.label, Col.kWhDelivered>>,
   rows |-> [i \in 1..10 |-> <<StrCell(i), NumCell(i)>>]]

\* CSV with two rows
DataSmall == [cols |-> DataCsv.cols, rows |-> SubSeq(DataCsv.rows, 1, 2)]

UploadFiles ==
  {[parses |-> FALSE, df |-> NoTable]}
  \cup {[parses |-> TRUE, df |-> d] : d \in {DataCsv, DataNoTs, DataSmall}}

JsonPayloads ==
  {[items |-> "absent", df |-> NoTable], [items |-> "empty", df |-> NoTable],
   [items |-> "malformed", df |-> NoTable], [items |-> "list", df |-> DataJson]}

(***************************************************************************)
(* Concurrent forecast and export calls (SpecRace): the endpoints are plain *)
(* functions, served by a thread pool; a statement that reads or assigns    *)
(* the global is one step. DataFrames are objects: the global and fut_out   *)
(* hold identities, and insert changes the object in place.                 *)
(***************************************************************************)
\* the largest number of forecast calls
MaxCalls == 3

ForecastThreads == {1, 2}

\* a series of 20 hourly points, the last ones falling
RaceSeries ==
  [i \in 1..MinPoints |->
     [ts |-> (SyntheticStart + i - 1) * HOUR, y |-> (30 - i) * ONE]]

\* what the calls forecast: the metric, the freq and the frame fut of _run_model
RaceInputs ==
  { [metric |-> "energy", freq |-> "H", fut |-> FallbackForecast(RaceSeries, "H", 2)],
    [metric |-> "sessions", freq |-> "H", fut |-> FallbackForecast(RaceSeries, "H", 0)],
    [metric |-> "energy", freq |-> "D",
     fut |-> ModelForecast(RaceSeries, "D", 1, 2 * ONE, ONE \div 2)] }

\* fut as a DataFrame: the columns ts, y_pred, lower, upper
FutFrame(fut) ==
  [cols |-> <<"ts", "y_pred", "lower", "upper">>,
   rows |-> [i \in 1..Len(fut) |->
               <<fut[i].ts, fut[i].y_pred, fut[i].lower, fut[i].upper>>]]

\* DataFrame.insert(loc, name, value): a new column at position loc (from 0)
\* holding value in every row
InsertColumn(df, loc, name, value) ==
  [cols |-> SubSeq(df.cols, 1, loc) \o <<name>> \o SubSeq(df.cols, loc + 1, Len(df.cols)),
   rows |-> [i \in 1..Len(df.rows) |->
               SubSeq(df.rows[i], 1, loc) \o <<value>>
               \o SubSeq(df.rows[i], loc + 1, Len(df.rows[i]))]]

\* DataFrame.to_csv(index=False) of any frame: the header and the lines, the
\* floats written by repr
frame_to_csv(df) ==
  [header |-> df.cols,
   lines |-> [i \in 1..Len(df.rows) |->
                [j \in 1..Len(df.cols) |->
                   IF df.cols[j] \in {"y_pred", "lower", "upper"}
                   THEN FormatFloat(df.rows[i][j]) ELSE df.rows[i][j]]]]

\* an order of the statements in which the global is assigned first
StatementAfterStoreFirst(st) ==
  CASE st = "copy" -> "store"
    [] st = "store" -> "insert_metric"
    [] st = "insert_metric" -> "insert_freq"
    [] st = "insert_freq" -> "return"

\* the statement after st in forecast(): fut_out = fut.copy(); the two
\* inserts; _LAST_FORECAST_DF = fut_out; return
StatementAfter(st) ==
  CASE st = "copy" -> "insert_metric"
    [] st = "insert_metric" -> "insert_freq"
    [] st = "insert_freq" -> "store"
    [] st = "store" -> "return"

RaceIdle ==
  /\ rcHeap = <<>>
  /\ rcLog = <<>>
  /\ rcLastForecastDf = 0
  /\ rcPc = [t \in ForecastThreads |-> "copy"]
  /\ rcFutOut = [t \in ForecastThreads |-> 0]
  /\ rcExpPc = "is_none"
  /\ rcResp = NoResp

\* fut_out = fut.copy(), in a forecast call of thread t whose worker returned fut
RaceCopy(t) ==
  /\ rcPc[t] = "copy"
  /\ Len(rcHeap) < MaxCalls
  /\ \E inp \in RaceInputs :
       /\ rcHeap' = Append(rcHeap, FutFrame(inp.fut))
       /\ rcLog' = Append(rcLog, [metric |-> inp.metric, freq |-> inp.freq,
                                  fut |-> inp.fut, stored |-> FALSE])
  /\ rcFutOut' = [rcFutOut EXCEPT ![t] = Len(rcHeap) + 1]
  /\ rcPc' = [rcPc EXCEPT ![t] = StatementAfter("copy")]
  /\ UNCHANGED <<rcLastForecastDf, rcExpPc, rcResp>>
  /\ UNCHANGED <<aggVars, selVars, adjVars, svcVars>>

\* fut_out.insert(0, "metric", req.metric)
RaceInsertMetric(t) ==
  /\ rcPc[t] = "insert_metric"
  /\ rcHeap' = [rcHeap EXCEPT ![rcFutOut[t]] =
                  InsertColumn(@, 0, "metric", rcLog[rcFutOut[t]].metric)]
  /\ rcPc' = [rcPc EXCEPT ![t] = StatementAfter("insert_metric")]
  /\ UNCHANGED <<rcLog, rcLastForecastDf, rcFutOut, rcExpPc, rcResp>>
  /\ UNCHANGED <<aggVars, selVars, adjVars, svcVars>>

\* fut_out.insert(1, "freq", req.freq)
RaceInsertFreq(t) ==
  /\ rcPc[t] = "insert_freq"
  /\ rcHeap' = [rcHeap EXCEPT ![rcFutOut[t]] =
                  InsertColumn(@, 1, "freq", rcLog[rcFutOut[t]].freq)]
  /\ rcPc' = [rcPc EXCEPT ![t] = StatementAfter("insert_freq")]
  /\ UNCHANGED <<rcLog, rcLastForecastDf, rcFutOut, rcExpPc, rcResp>>
  /\ UNCHANGED <<aggVars, selVars, adjVars, svcVars>>

\* _LAST_FORECAST_DF = fut_out
RaceStore(t) ==
  /\ rcPc[t] = "store"
  /\ rcLastForecastDf' = rcFutOut[t]
  /\ rcLog' = [rcLog EXCEPT ![rcFutOut[t]].stored = TRUE]
  /\ rcPc' = [rcPc EXCEPT ![t] = StatementAfter("store")]
  /\ UNCHANGED <<rcHeap, rcFutOut, rcExpPc, rcResp>>
  /\ UNCHANGED <<aggVars, selVars, adjVars, svcVars>>

\* return {...}: the thread is free for the next call
RaceReturn(t) ==
  /\ rcPc[t] = "return"
  /\ rcPc' = [rcPc EXCEPT ![t] = "copy"]
  /\ rcFutOut' = [rcFutOut EXCEPT ![t] = 0]
  /\ UNCHANGED <<rcHeap, rcLog, rcLastForecastDf, rcExpPc, rcResp>>
  /\ UNCHANGED <<aggVars, selVars, adjVars, svcVars>>

RaceNoForecast ==
  JsonResp("export", 400, [ok |-> FALSE, message |-> "No forecast available yet."])

\* download_forecast_csv: _LAST_FORECAST_DF is None
ExportIsNone ==
  /\ rcExpPc = "is_none"
  /\ IF rcLastForecastDf = 0
     THEN rcResp' = RaceNoForecast /\ rcExpPc' = "returned"
     ELSE rcResp' = NoResp /\ rcExpPc' = "empty"
  /\ UNCHANGED <<rcHeap, rcLog, rcLastForecastDf, rcPc, rcFutOut>>
  /\ UNCHANGED <<aggVars, selVars, adjVars, svcVars>>

\* download_forecast_csv: _LAST_FORECAST_DF.empty, on the global as it is now
ExportIsEmpty ==
  /\ rcExpPc = "empty"
  /\ IF IsEmptyFrame(rcHeap[rcLastForecastDf])
     THEN rcResp' = RaceNoForecast /\ rcExpPc' = "returned"
     ELSE rcResp' = NoResp /\ rcExpPc' = "to_csv"
  /\ UNCHANGED <<rcHeap, rcLog, rcLastForecastDf, rcPc, rcFutOut>>
  /\ UNCHANGED <<aggVars, selVars, adjVars, svcVars>>

\* download_forecast_csv: _LAST_FORECAST_DF.to_csv(index=False), on the global
\* as it is now, and the response
ExportToCsv ==
  /\ rcExpPc = "to_csv"
  /\ rcResp' = [op |-> "export", kind |-> "csv", status |-> 200,
                csv |-> frame_to_csv(rcHeap[rcLastForecastDf])]
  /\ rcExpPc' = "returned"
  /\ UNCHANGED <<rcHeap, rcLog, rcLastForecastDf, rcPc, rcFutOut>>
  /\ UNCHANGED <<aggVars, selVars, adjVars, svcVars>>

\* the client has the export's response; the next export may start
ExportReceived ==
  /\ rcExpPc = "returned"
  /\ rcExpPc' = "is_none"
  /\ rcResp' = NoResp
  /\ UNCHANGED <<rcHeap, rcLog, rcLastForecastDf, rcPc, rcFutOut>>
  /\ UNCHANGED <<aggVars, selVars, adjVars, svcVars>>

RaceNext ==
  \/ \E t \in ForecastThreads :
       \/ RaceCopy(t)
       \/ RaceInsertMetric(t)
       \/ RaceInsertFreq(t)
       \/ RaceStore(t)
       \/ RaceReturn(t)
  \/ ExportIsNone
  \/ ExportIsEmpty
  \/ ExportToCsv
  \/ ExportReceived

\* the CSV of the complete row set of the forecast logged as h
C12_CompleteCsv(h) ==
  [header |-> <<"metric", "freq", "ts", "y_pred", "lower", "upper">>,
   lines |-> [i \in 1..Len(h.fut) |->
                <<h.metric, h.freq, h.fut[i].ts, FormatFloat(h.fut[i].y_pred),
                  FormatFloat(h.fut[i].lower), FormatFloat(h.fut[i].upper)>>]]

\* C12: under any interleaving of forecast and export calls, an export answers
\* 'No forecast available yet.' or the complete row set of exactly one
\* forecast whose call has stored it: never a partly built table, never rows of
\* two forecasts.
C12_ExportIsOneWholeForecast ==
  rcExpPc = "returned" =>
    \/ rcResp = RaceNoForecast
    \/ /\ rcResp.kind = "csv"
       /\ \E n \in 1..Len(rcLog) :
            rcLog[n].stored /\ rcResp.csv = C12_CompleteCsv(rcLog[n])

\* an export returned the one-row forecast that was stored second, after a
\* two-row one, while another forecast call is still building its frame
C12_Witness ==
  /\ rcExpPc = "returned"
  /\ rcResp.kind = "csv"
  /\ Len(rcResp.csv.lines) = 1
  /\ rcLastForecastDf = 2
  /\ Len(rcHeap[1].rows) = 2
  /\ \E t \in ForecastThreads : rcPc[t] = "insert_freq"

(***************************************************************************)
(* The service: its initial state and its endpoints                        *)
(***************************************************************************)
SvcIdle ==
  /\ filledCsv = NoFile
  /\ latestCsv = NoFile
  /\ lastForecastDf = NoDf
  /\ pc = "idle"
  /\ req = NoRequest
  /\ agg = EmptyShape
  /\ y = <<>>
  /\ worker = "none"
  /\ wres = NoResult
  /\ workDur = 0
  /\ now = 0
  /\ resp = NoResp
  /\ lastOk = NoOk

Init == AggIdle /\ SelIdle /\ AdjIdle /\ RaceIdle /\ SvcIdle

\* an operation that returns at once with response r, the rest untouched
ReturnsAtOnce(r) ==
  /\ resp' = r
  /\ pc' = "returned"
  /\ UNCHANGED <<req, agg, y, worker, wres, workDur, now>>

\* upload_csv
Upload ==
  /\ pc = "idle"
  /\ \E f \in UploadFiles :
       IF ~f.parses
       THEN ReturnsAtOnce(ExceptionResp("upload")) /\ UNCHANGED filledCsv
       ELSE IF Len(f.df.rows) < 10
       THEN /\ ReturnsAtOnce(JsonResp("upload", 200,
                 [ok |-> FALSE, message |-> "CSV seems too small."]))
            /\ UNCHANGED filledCsv
       ELSE /\ filledCsv' = StoredFile(f.df)
            /\ ReturnsAtOnce(JsonResp("upload", 200,
                 [ok |-> TRUE, rows |-> Len(f.df.rows), format |-> "csv"]))
  /\ UNCHANGED <<lastForecastDf, lastOk>>
  /\ UNCHANGED <<latestCsv, aggVars, selVars, adjVars, raceVars>>

\* ingest_json
IngestJson ==
  /\ pc = "idle"
  /\ \E p \in JsonPayloads :
       IF p.items = "malformed"
       THEN /\ ReturnsAtOnce(JsonResp("ingest", 200,
                 [ok |-> FALSE, message |-> "Failed to parse JSON"]))
            /\ UNCHANGED filledCsv
       ELSE IF p.items \in {"absent", "empty"} \/ IsEmptyFrame(p.df)
       THEN /\ ReturnsAtOnce(JsonResp("ingest", 200,
                 [ok |-> FALSE, message |-> "No _items found in JSON payload."]))
            /\ UNCHANGED filledCsv
       ELSE /\ filledCsv' = StoredFile(p.df)
            /\ ReturnsAtOnce(JsonResp("ingest", 200,
                 [ok |-> TRUE, rows |-> Len(p.df.rows), columns |-> p.df.cols,
                  message |-> "Flattened JSON saved to ACN-data.csv",
                  format |-> "json"]))
  /\ UNCHANGED <<lastForecastDf, lastOk>>
  /\ UNCHANGED <<latestCsv, aggVars, selVars, adjVars, raceVars>>

\* diagnostics(), its first two statements: the working dataset is loaded and
\* aggregated for the site and freq asked for
DiagnosticsLoad ==
  /\ pc = "idle"
  /\ \E noise \in Noises : \E site \in ReqSites : \E freq \in ReqFreqs :
       /\ agg' = build_hourly_daily(load_current_dataframe(filledCsv, noise), site, freq)
       /\ req' = [site |-> site, freq |-> freq, metric |-> "energy", nlags |-> 0]
  /\ pc' = "diag_loaded"
  /\ UNCHANGED <<filledCsv, lastForecastDf, y, worker, wres, workDur, now, resp, lastOk>>
  /\ UNCHANGED <<latestCsv, aggVars, selVars, adjVars, raceVars>>

\* diagnostics(), from there to its return; metric and nlags are read here.
\* The aggregated frame stays with the call until the client has the response.
DiagnosticsFinish ==
  /\ pc = "diag_loaded"
  /\ \E metric \in ReqMetrics : \E nlags \in ReqNlags : \E lib \in StatOutcomes :
       LET sel == select_series(agg, metric)
           n == Len(sel.s)
           lags == EffectiveLags(nlags, n)
       IN /\ req' = [req EXCEPT !.metric = metric, !.nlags = nlags]
          /\ resp' =
               IF agg.kind = "raise" THEN ExceptionResp("diagnostics")
               ELSE IF Len(agg.rows) = 0
               THEN JsonResp("diagnostics", 200,
                      [ok |-> FALSE,
                       message |-> "No aggregated data available for diagnostics."])
               ELSE IF sel.kind = "raise" THEN ExceptionResp("diagnostics")
               ELSE IF n < MinDiagPoints
               THEN JsonResp("diagnostics", 200,
                      [ok |-> FALSE, message |-> "Not enough data for diagnostics.",
                       series_length |-> n])
               ELSE JsonResp("diagnostics", 200,
                      [ok |-> TRUE, lags |-> lags,
                       acf |-> clean_all(sm_stat(lags, lib.acf)),
                       pacf |-> clean_all(sm_stat(lags, lib.pacf)),
                       series_length |-> n])
  /\ pc' = "returned"
  /\ UNCHANGED <<filledCsv, lastForecastDf, agg, y, worker, wres, workDur, now, lastOk>>
  /\ UNCHANGED <<latestCsv, aggVars, selVars, adjVars, raceVars>>

\* forecast(), its first two statements: the working dataset is loaded and
\* aggregated for the request's site and freq
ForecastLoad ==
  /\ pc = "idle"
  /\ \E noise \in Noises : \E site \in ReqSites : \E freq \in ReqFreqs :
       /\ agg' = build_hourly_daily(load_current_dataframe(filledCsv, noise), site, freq)
       /\ req' = [NoRequest EXCEPT !.site = site, !.freq = freq]
  /\ pc' = "loaded"
  /\ UNCHANGED <<filledCsv, lastForecastDf, y, worker, wres, workDur, now, resp, lastOk>>
  /\ UNCHANGED <<latestCsv, aggVars, selVars, adjVars, raceVars>>

\* forecast(), from there to executor.submit(_run_model): the early returns,
\* the exceptions that leave it, or the blocked wait for the worker. The
\* request's other fields are read here.
ForecastSubmit ==
  /\ pc = "loaded"
  /\ \E metric \in ReqMetrics : \E horizon \in ReqHorizons :
     \E test_size \in ReqTestSizes : \E mode \in ReqModes : \E dur \in Durations :
        LET sel == select_series(agg, metric)
            n == Len(sel.s)
            adj == AdjustShortSeries(n, test_size, horizon)
            returns(r) == /\ resp' = r
                          /\ pc' = "returned"
                          /\ req' = NoRequest
                          /\ UNCHANGED <<y, worker, wres, workDur, now>>
        IN IF agg.kind = "raise"
           THEN returns(ExceptionResp("forecast"))
           ELSE IF Len(agg.rows) = 0
           THEN returns(JsonResp("forecast", 200,
                  [ok |-> FALSE,
                   message |-> "No aggregated data available for forecasting."]))
           ELSE IF sel.kind = "raise"
           THEN returns(ExceptionResp("forecast"))
           ELSE IF n < MinPoints
           THEN returns(JsonResp("forecast", 200,
                  [ok |-> FALSE, message |-> "Not enough data points for forecasting.",
                   series_length |-> n]))
           ELSE /\ req' = [site |-> req.site, metric |-> metric, freq |-> req.freq,
                           horizon |-> adj.horizon, test_size |-> adj.test_size,
                           auto_grid |-> mode.auto_grid, order |-> mode.order,
                           seasonal_order |-> mode.seasonal_order]
                /\ y' = sel.s
                /\ worker' = "running"
                /\ wres' = NoResult
                /\ workDur' = dur
                /\ now' = 0
                /\ pc' = "await"
                /\ resp' = NoResp
  /\ agg' = EmptyShape
  /\ UNCHANGED <<filledCsv, lastForecastDf, lastOk>>
  /\ UNCHANGED <<latestCsv, aggVars, selVars, adjVars, raceVars>>

\* _run_model, in the worker thread: it ends workDur seconds after the submit
WorkerRun ==
  /\ pc \in {"await", "shutdown"}
  /\ worker = "running"
  /\ now = workDur
  /\ LET trainLen == TrainLen(Len(y), req.test_size)
         searched == trainLen >= SmallTrain /\ req.auto_grid
         fitsSet == IF searched THEN [1..Len(AutoCandidates) -> FitOutcomes]
                    ELSE {[i \in 1..Len(AutoCandidates) |-> [ok |-> FALSE, aic |-> 0]]}
         sels == {SelectOrder(trainLen, req.auto_grid, req.order,
                              req.seasonal_order, f) : f \in fitsSet}
     IN \E sel \in sels : \E fitOk \in BOOLEAN : \E level \in Levels :
        \E width \in Widths :
          wres' = RunModel(y, req, sel, fitOk, level, width)
  /\ worker' = "finished"
  /\ UNCHANGED <<filledCsv, lastForecastDf, pc, req, agg, y, workDur, now, resp,
                 lastOk>>
  /\ UNCHANGED <<latestCsv, aggVars, selVars, adjVars, raceVars>>

\* time passes while forecast() is blocked, up to the next event: the worker's
\* end, or the deadline of future.result
Advance ==
  /\ worker = "running"
  /\ \/ /\ pc = "await"
        /\ now < Min(workDur, TIMEOUT)
        /\ now' = Min(workDur, TIMEOUT)
     \/ /\ pc = "shutdown"
        /\ now < workDur
        /\ now' = workDur
  /\ UNCHANGED <<filledCsv, lastForecastDf, pc, req, agg, y, worker, wres, workDur,
                 resp, lastOk>>
  /\ UNCHANGED <<latestCsv, aggVars, selVars, adjVars, raceVars>>

\* the response forecast() assembles from the worker's result
ForecastBody(rq, ser, result) ==
  [ok |-> TRUE,
   model_id |-> <<rq.metric, rq.freq, result.order, result.seasonal_order>>,
   order |-> result.order,
   seasonal_order |-> result.seasonal_order,
   metric |-> rq.metric,
   freq |-> rq.freq,
   horizon |-> rq.horizon,
   test_size |-> rq.test_size,
   metrics |-> IF result.fallback THEN None ELSE result.metrics,
   history |-> ser,
   validation |-> IF result.fallback THEN None ELSE result.val_df,
   forecast |-> result.forecast_df]

\* fut.copy() with the columns metric and freq inserted in front
ForecastOut(rq, fut) ==
  [i \in 1..Len(fut) |->
     [metric |-> rq.metric, freq |-> rq.freq, ts |-> fut[i].ts,
      y_pred |-> fut[i].y_pred, lower |-> fut[i].lower, upper |-> fut[i].upper]]

\* future.result returns (or re-raises) within the budget; forecast() leaves
\* the with block, stores the forecast and returns
FutureResult ==
  /\ pc = "await"
  /\ worker = "finished"
  /\ IF wres.kind = "raise"
     THEN /\ resp' = ExceptionResp("forecast")
          /\ UNCHANGED <<lastForecastDf, lastOk>>
     ELSE LET body == ForecastBody(req, y, wres)
          IN /\ lastForecastDf' = [set |-> TRUE, rows |-> ForecastOut(req, wres.forecast_df)]
             /\ resp' = JsonResp("forecast", 200, body)
             /\ lastOk' = [any |-> TRUE, metric |-> body.metric, freq |-> body.freq,
                           forecast |-> body.forecast]
  /\ pc' = "returned"
  /\ worker' = "none"
  /\ req' = NoRequest
  /\ y' = <<>>
  /\ UNCHANGED <<filledCsv, agg, wres, workDur, now>>
  /\ UNCHANGED <<latestCsv, aggVars, selVars, adjVars, raceVars>>

\* future.result(timeout=20) raises TimeoutError; the return statement runs
\* inside "with ThreadPoolExecutor(...)", whose exit is shutdown(wait=True)
FutureTimeout ==
  /\ pc = "await"
  /\ worker = "running"
  /\ now = TIMEOUT
  /\ pc' = "shutdown"
  /\ UNCHANGED <<filledCsv, lastForecastDf, req, agg, y, worker, wres, workDur,
                 now, resp, lastOk>>
  /\ UNCHANGED <<latestCsv, aggVars, selVars, adjVars, raceVars>>

\* shutdown(wait=True) has joined the worker: the timeout result is returned
ShutdownReturn ==
  /\ pc = "shutdown"
  /\ worker = "finished"
  /\ resp' = JsonResp("forecast", 200,
       [ok |-> FALSE,
        message |-> "Forecasting timed out. Try smaller horizon or disable auto_grid."])
  /\ pc' = "returned"
  /\ worker' = "none"
  /\ req' = NoRequest
  /\ y' = <<>>
  /\ UNCHANGED <<filledCsv, lastForecastDf, agg, wres, workDur, now, lastOk>>
  /\ UNCHANGED <<latestCsv, aggVars, selVars, adjVars, raceVars>>

\* download_forecast_csv
Export ==
  /\ pc = "idle"
  /\ IF ~lastForecastDf.set \/ Len(lastForecastDf.rows) = 0
     THEN ReturnsAtOnce(JsonResp("export", 400,
            [ok |-> FALSE, message |-> "No forecast available yet."]))
     ELSE ReturnsAtOnce([op |-> "export", kind |-> "csv", status |-> 200,
                         csv |-> to_csv(lastForecastDf.rows)])
  /\ UNCHANGED <<filledCsv, lastForecastDf, lastOk>>
  /\ UNCHANGED <<latestCsv, aggVars, selVars, adjVars, raceVars>>

\* get_raw: the preview of LATEST_CSV, a file no operation of the service writes
GetRaw ==
  /\ pc = "idle"
  /\ \E limit \in RawLimits :
       LET df == load_raw_dataframe(latestCsv)
       IN IF IsEmptyFrame(df)
          THEN ReturnsAtOnce(JsonResp("raw", 200,
                 [ok |-> TRUE, total_rows |-> 0, columns |-> <<>>, preview |-> <<>>,
                  message |-> "No ACN-data.csv yet. Upload CSV or ingest JSON first."]))
          ELSE ReturnsAtOnce(JsonResp("raw", 200,
                 [ok |-> TRUE, total_rows |-> Len(df.rows), columns |-> df.cols,
                  preview |-> SubSeq(df.rows, 1, Min(limit, Len(df.rows))),
                  source |-> "ACN-data.csv"]))
  /\ UNCHANGED <<filledCsv, lastForecastDf, lastOk>>
  /\ UNCHANGED <<latestCsv, aggVars, selVars, adjVars, raceVars>>

\* the client has the response; the call's locals are gone
ClientReceives ==
  /\ pc = "returned"
  /\ pc' = "idle"
  /\ resp' = NoResp
  /\ wres' = NoResult
  /\ workDur' = 0
  /\ now' = 0
  /\ req' = NoRequest
  /\ agg' = EmptyShape
  /\ UNCHANGED <<filledCsv, lastForecastDf, y, worker, lastOk>>
  /\ UNCHANGED <<latestCsv, aggVars, selVars, adjVars, raceVars>>

Next ==
  \/ Upload
  \/ IngestJson
  \/ DiagnosticsLoad
  \/ DiagnosticsFinish
  \/ ForecastLoad
  \/ ForecastSubmit
  \/ WorkerRun
  \/ Advance
  \/ FutureResult
  \/ FutureTimeout
  \/ ShutdownReturn
  \/ Export
  \/ GetRaw
  \/ ClientReceives

Spec == Init /\ [][Next]_vars

SpecAgg == Init /\ [][AggNext]_vars
SpecSelect == Init /\ [][SelNext]_vars
SpecRace == Init /\ [][RaceNext]_vars
SpecAdjust == Init /\ [][AdjustWindow]_vars

(***************************************************************************)
(* Claims about the service (checked under Spec)                           *)
(***************************************************************************)
TimeoutMessage == "Forecasting timed out. Try smaller horizon or disable auto_grid."
NoForecastMessage == "No forecast available yet."

ForecastReturned == pc = "returned" /\ resp.op = "forecast"
ForecastOk == ForecastReturned /\ resp.kind = "json" /\ resp.body.ok
ExportReturned == pc = "returned" /\ resp.op = "export"

\* C1: a forecast whose worker has not finished within the 20-second budget
\* returns the timeout result at the deadline, without waiting for the worker.
C1_TimeoutReturnsAtDeadline ==
  (ForecastReturned /\ resp.kind = "json" /\ ~resp.body.ok
     /\ resp.body.message = TimeoutMessage)
  => now = 20

\* the export answers with the CSV of the rows fc of a forecast for metric m
\* and frequency f: one line per row, the same timestamps, and numbers that
\* read back as the very values of the response
ExportCarries(m, f, fc) ==
  /\ resp.kind = "csv"
  /\ resp.csv.header = <<"metric", "freq", "ts", "y_pred", "lower", "upper">>
  /\ Len(resp.csv.lines) = Len(fc)
  /\ \A i \in 1..Len(fc) :
       /\ resp.csv.lines[i].metric = m
       /\ resp.csv.lines[i].freq = f
       /\ resp.csv.lines[i].ts = fc[i].ts
       /\ ParseFloat(resp.csv.lines[i].y_pred) = fc[i].y_pred
       /\ ParseFloat(resp.csv.lines[i].lower) = fc[i].lower
       /\ ParseFloat(resp.csv.lines[i].upper) = fc[i].upper

ExportSaysNoForecast ==
  /\ resp.kind = "json"
  /\ resp.status = 400
  /\ ~resp.body.ok
  /\ resp.body.message = NoForecastMessage

\* a forecast call that returns ok:false or raises leaves the stored forecast
\* as it was
FailedForecastKeepsStore ==
  (pc' = "returned" /\ pc # "returned" /\ resp'.op = "forecast"
     /\ (resp'.kind = "exception" \/ ~resp'.body.ok))
  => lastForecastDf' = lastForecastDf

\* C2 as stated: an export returns the rows of the most recent ok:true
\* forecast, and the 'No forecast available yet.' message only before any
\* ok:true forecast.
C2_ExportIsLastOkForecast ==
  ExportReturned =>
    IF lastOk.any THEN ExportCarries(lastOk.metric, lastOk.freq, lastOk.forecast)
    ELSE ExportSaysNoForecast

\* C2 amended: an export returns the rows of the most recent ok:true forecast
\* with y_pred identical to that response's, when that forecast has at least
\* one row; before any ok:true forecast, and when the most recent one has no
\* rows (horizon 0), it reports 'No forecast available yet.'; a forecast call
\* that does not return ok:true leaves the stored forecast unchanged.
C2_ExportIsLastNonEmptyOkForecast ==
  /\ [](ExportReturned =>
          IF lastOk.any /\ Len(lastOk.forecast) > 0
          THEN ExportCarries(lastOk.metric, lastOk.freq, lastOk.forecast)
          ELSE ExportSaysNoForecast)
  /\ [][FailedForecastKeepsStore]_vars

\* an export of a forecast of two or more rows whose first y_pred is negative
\* and not a whole number
C2_Witness ==
  /\ ExportReturned
  /\ resp.kind = "csv"
  /\ Len(resp.csv.lines) >= 2
  /\ lastOk.forecast[1].y_pred % ONE # 0
  /\ lastOk.forecast[1].y_pred < 0

\* C3: no operation lets an exception out; each returns a structured value.
C3_NothingIsRaised == pc = "returned" => resp.kind # "exception"

\* C4: when the fit failed and the forecast returned ok:true, the result
\* handed to the caller carries fallback = true, and its metrics and
\* validation are null.
C4_FallbackIsMarked ==
  (ForecastOk /\ wres.kind = "result" /\ wres.fallback)
  => /\ "fallback" \in DOMAIN resp.body
     /\ resp.body.fallback
     /\ resp.body.metrics = None
     /\ resp.body.validation = None

\* C10: an ok:true forecast has exactly as many future rows as the horizon it
\* reports, the first one bucket after the last observation of the history
\* and each next one bucket later.
C10_HorizonRowsAfterLast ==
  ForecastOk =>
    LET step == IF resp.body.freq = "H" THEN 2 ELSE 48
        last == resp.body.history[Len(resp.body.history)].ts
    IN /\ Len(resp.body.forecast) = resp.body.horizon
       /\ \A i \in 1..Len(resp.body.forecast) :
            resp.body.forecast[i].ts = last + i * step

\* a daily forecast whose requested horizon of 14 was cut to 12
C10_Witness ==
  /\ ForecastOk
  /\ resp.body.freq = "D"
  /\ resp.body.horizon = 12
  /\ Len(resp.body.forecast) = 12
  /\ ~wres.fallback

\* C11: once an upload or a JSON ingest has succeeded, the raw preview shows
\* exactly the ingested table (its row count and its columns).
C11_RawPreviewShowsIngested ==
  (pc = "returned" /\ resp.op = "raw" /\ filledCsv.exists)
  => /\ resp.body.total_rows = Len(filledCsv.rows)
     /\ resp.body.columns = filledCsv.cols

DiagnosticsReturned == pc = "returned" /\ resp.op = "diagnostics" /\ resp.kind = "json"

\* C14: diagnostics on a series of fewer than 10 observations returns the
\* insufficient-data result with the observed length and no statistics; with
\* n >= 10 the lag count is min(requested nlags, max(5, n // 3)) and every acf
\* and pacf entry is a number or the null marker, never not-a-number or an
\* infinity.
C14_DiagnosticsLagsAndNulls ==
  (DiagnosticsReturned /\ Len(agg.rows) > 0) =>
    LET n == Len(agg.rows)
        third == n \div 3
        cap == IF third > 5 THEN third ELSE 5
    IN IF n < 10
       THEN /\ ~resp.body.ok
            /\ resp.body.message = "Not enough data for diagnostics."
            /\ resp.body.series_length = n
            /\ "acf" \notin DOMAIN resp.body
            /\ "pacf" \notin DOMAIN resp.body
       ELSE /\ resp.body.ok
            /\ resp.body.series_length = n
            /\ resp.body.lags = (IF req.nlags < cap THEN req.nlags ELSE cap)
            /\ \A i \in 1..Len(resp.body.acf) : resp.body.acf[i].k \in {"num", "null"}
            /\ \A i \in 1..Len(resp.body.pacf) : resp.body.pacf[i].k \in {"num", "null"}

\* 40 lags asked on a series of 31 points, cut to 10, with null markers in the
\* acf where the library gave infinities
C14_Witness ==
  /\ DiagnosticsReturned
  /\ resp.body.ok
  /\ req.nlags = 40
  /\ resp.body.series_length = 31
  /\ resp.body.lags = 10
  /\ resp.body.acf[3].k = "null"
  /\ resp.body.pacf[3].k = "num"

FallbackReturned == ForecastOk /\ wres.kind = "result" /\ wres.fallback

\* C16: in the linear-trend fallback the trend per step is the difference
\* between the last observation and the one exactly k steps before it,
\* divided by k, with k = 5 (half the length when the series has fewer than
\* 10 points), and forecast row i is the last observation plus i times the
\* trend.
C16_TrendIsSlopeOverKSteps ==
  FallbackReturned =>
    LET h == resp.body.history
        n == Len(h)
        k == IF n \div 2 < 5 THEN n \div 2 ELSE 5
        trend == (h[n].y - h[n - k].y) \div k
    IN \A i \in 1..Len(resp.body.forecast) :
         resp.body.forecast[i].y_pred = h[n].y + i * trend

\* C17: in every fallback forecast row lower <= y_pred <= upper, and each
\* bound is 10% of |y_pred| away from y_pred (to the last digit kept), for
\* positive, zero and negative y_pred alike.
C17_BandAroundPointForecast ==
  FallbackReturned =>
    \A i \in 1..Len(resp.body.forecast) :
      LET r == resp.body.forecast[i]
          mag == IF r.y_pred < 0 THEN 0 - r.y_pred ELSE r.y_pred
          tenth == mag \div 10
      IN /\ r.lower <= r.y_pred
         /\ r.y_pred <= r.upper
         /\ (r.upper - r.y_pred) \in {tenth, tenth + 1}
         /\ (r.y_pred - r.lower) \in {tenth, tenth + 1}

====
